---- MODULE Spec2Model ----
(***************************************************************************)
(* AI-Video-Finder: the search lifecycle of AppComponent (findVideos,      *)
(* history, validation) and the URL cache and link normalisation of        *)
(* GeminiService.findVideosInUrl.                                          *)
(*                                                                         *)
(* Strings are sequences of tokens: "https://a.test/page" is               *)
(* <<"https", "://", "a.test", "/page">>, "" is <<>>.  An optional field   *)
(* is a sequence of length 0 (missing) or 1 (present).                     *)
(***************************************************************************)
EXTENDS Integers, Sequences, FiniteSets, TLC

VARIABLES
    booted,            \* ngOnInit has run
    url,               \* AppComponent.url
    videoGroups,       \* AppComponent.videoGroups
    isLoading,         \* AppComponent.isLoading
    error,             \* AppComponent.error: <<>> is null, <<m>> is the message m
    hasSearched,       \* AppComponent.hasSearched
    selectedCategory,  \* AppComponent.selectedCategory
    urlHistory,        \* AppComponent.urlHistory: the JSON value the signal holds
    storage,           \* localStorage under storageKey
    cache,             \* the module-level cache Map of the service
    inflight,          \* findVideos invocations suspended on generateContent
    cont,              \* findVideos continuation waiting in the microtask queue
    modelCalls,        \* number of generateContent calls made, per url
    firstStored,       \* per url, the first result cache.set stored for it
    lastOp,            \* the handler step that produced the current state
    sortBy,            \* AppComponent.sortBy
    view,              \* allCategories and filteredVideoGroups as the
                       \* template last read them
    isModalOpen,       \* AppComponent.isModalOpen
    selectedVideoGroup,\* AppComponent.selectedVideoGroup: <<>> is null
    copiedUrl,         \* AppComponent.copiedUrl
    writes,            \* clipboard.writeText promises not settled yet
    timers,            \* the 2-second timers not fired yet, oldest first
    clipOp,            \* the modal or clipboard step that produced the state
    resumeAt,          \* where the resumed findVideos stands: try or finally
    lastSubmitted      \* the url of the search started last

\* the search lifecycle, the view controls and the download modal work on
\* disjoint parts of the state
viewVars == <<sortBy, view>>
modalVars == <<isModalOpen, selectedVideoGroup, copiedUrl, writes, timers, clipOp>>

vars == <<booted, url, videoGroups, isLoading, error, hasSearched,
          selectedCategory, urlHistory, storage, cache, inflight, cont,
          modelCalls, firstStored, lastOp, sortBy, view, isModalOpen,
          selectedVideoGroup, copiedUrl, writes, timers, clipOp, resumeAt,
          lastSubmitted>>

----------------------------------------------------------------------------
(* Bounds of the model *)

\* at most this many generateContent calls are started in one run
MaxModelCalls == 2

\* the history cap of updateHistory
HistoryCap == 10

----------------------------------------------------------------------------
(* The WHATWG URL parser, as far as the token strings of the model go *)

Schemes == {"http", "https", "ftp"}

\* host tokens the parser accepts; "[bad" is an unterminated IPv6 literal
ValidHosts == {"a.test", "b.test", "c.test", "x.test", "cdn.test"}

\* a relative-path token and the path it resolves to against a base whose
\* path has the directory "/"
RelToPath(p) ==
    CASE p = "/thumb.jpg" -> "/thumb.jpg"
      [] p = "/v.mp4" -> "/v.mp4"
      [] p = "v2.mp4" -> "/v2.mp4"
      [] p = "not a url" -> "/not%20a%20url"
      [] OTHER -> "/"

Failed == [ok |-> FALSE, scheme |-> "", host |-> "", path |-> ""]

HasScheme(s) == Len(s) >= 2 /\ s[1] \in Schemes /\ s[2] = "://"

\* new URL(s): an absolute string with a scheme and a valid host
ParseAbsolute(s) ==
    IF HasScheme(s) /\ Len(s) >= 3 /\ s[3] \in ValidHosts
    THEN [ok |-> TRUE, scheme |-> s[1], host |-> s[3],
          path |-> IF Len(s) >= 4 THEN s[4] ELSE "/"]
    ELSE Failed

\* new URL(s, base): s itself when it has a scheme, otherwise s relative to base
ParseWithBase(s, base) ==
    IF HasScheme(s) THEN ParseAbsolute(s)
    ELSE LET b == ParseAbsolute(base) IN
         IF ~b.ok THEN Failed
         ELSE IF s = <<>> THEN b
         ELSE [ok |-> TRUE, scheme |-> b.scheme, host |-> b.host,
               path |-> RelToPath(s[1])]

\* URL.href: the serialisation of a parsed URL
Href(u) == <<u.scheme, "://", u.host, u.path>>

\* URL.protocol
Protocol(u) == <<u.scheme, ":">>

isValidUrlAcceptFtp(urlString) == ParseAbsolute(urlString).ok

isValidUrl(urlString) ==
    LET newUrl == ParseAbsolute(urlString) IN
    /\ newUrl.ok
    /\ Protocol(newUrl) \in {<<"http", ":">>, <<"https", ":">>}

----------------------------------------------------------------------------
(* The strings of the model *)

UrlA == <<"https", "://", "a.test">>
UrlB == <<"http", "://", "b.test", "/page">>
EmptyInput == <<>>
NotAUrl == <<"not a url">>
FtpUrl == <<"ftp", "://", "x.test">>

\* what the user types into the search box, which starts out empty
Inputs == {UrlA, UrlB, NotAUrl, FtpUrl}

\* URLs searched in an earlier session, oldest last
OldPaths == <<"/o1", "/o2", "/o3", "/o4", "/o5", "/o6", "/o7", "/o8", "/o9">>
OldUrl(i) == <<"https", "://", "c.test", OldPaths[i]>>
OldUrls == [i \in 1..(HistoryCap - 1) |-> OldUrl(i)]

\* a history entry that is not a string (the number 1)
NonString == <<"#1">>

ValidationMsg == "Please enter a valid URL (e.g., https://example.com)"
AnalysisMsg == "Failed to analyze the URL. The AI model could not process the request."
TypeErrorMsg == "history.filter is not a function"
UnknownMsg == "An unknown error occurred."

----------------------------------------------------------------------------
(* JSON values, as far as urlHistory and localStorage need them *)

JList(items) == [kind |-> "list", items |-> items]
JObject == [kind |-> "object", items |-> <<>>]
JNull == [kind |-> "null", items |-> <<>>]

\* localStorage.getItem(storageKey): no entry, text that is not JSON, or the
\* JSON text of a value
Absent == [kind |-> "absent", val |-> JNull]
BadText == [kind |-> "text", val |-> JNull]
Stored(v) == [kind |-> "json", val |-> v]

\* the lists an earlier session of the application can have written
FullHistory == JList(<<UrlA>> \o OldUrls)
ShortHistory == JList(<<UrlB, UrlA>>)

StartupStorage ==
    {Absent, BadText, Stored(JObject), Stored(JList(<<NonString>>)),
     Stored(ShortHistory), Stored(FullHistory)}

----------------------------------------------------------------------------
(* VideoGroup, VideoVariant and the answers of the external model *)

Variant(u) == [url |-> u, format |-> "mp4", resolution |-> <<"1080p">>]

Group(title, thumb, cat, pop, vs) ==
    [title |-> title, thumbnailUrl |-> thumb, category |-> cat,
     uploadDate |-> <<>>, popularity |-> pop, variants |-> vs]

RelThumb == <<"/thumb.jpg">>
RelVideo == <<"/v.mp4">>
RelVideo2 == <<"v2.mp4">>
AbsVideo == <<"https", "://", "cdn.test", "/v.mp4">>
BadLink == <<"http", "://", "[bad">>

\* three groups; the first variant of the first group does not resolve, the
\* second group has the empty string as its thumbnail
AnswerBadVariant ==
    << Group("one", <<>>, <<"Music">>, <<40>>,
             <<Variant(BadLink), Variant(RelVideo)>>),
       Group("two", <<EmptyInput>>, <<>>, <<>>,
             <<Variant(RelVideo2)>>),
       Group("three", <<RelThumb>>, <<"Vlog">>, <<90>>,
             <<Variant(AbsVideo)>>) >>

\* the thumbnail of the group does not resolve
AnswerBadThumb ==
    << Group("one", <<BadLink>>, <<"Vlog">>, <<>>, <<Variant(RelVideo)>>) >>

\* neither the thumbnail nor the first variant resolves
AnswerBadBoth ==
    << Group("one", <<BadLink>>, <<>>, <<>>,
             <<Variant(BadLink), Variant(RelVideo)>>) >>

\* generateContent rejects, answers text that is not JSON, or answers a list
Rejected == [kind |-> "reject", groups |-> <<>>]
Unparsable == [kind |-> "text", groups |-> <<>>]
Answer(gs) == [kind |-> "json", groups |-> gs]

ModelAnswers ==
    {Rejected, Unparsable, Answer(<<>>), Answer(AnswerBadVariant),
     Answer(AnswerBadThumb), Answer(AnswerBadBoth)}

----------------------------------------------------------------------------
(* GeminiService.findVideosInUrl: link normalisation *)

\* the variant with its url made absolute; the variant itself when new URL throws
NormalizeVariant(variant, base) ==
    LET absoluteUrl == ParseWithBase(variant.url, base) IN
    IF absoluteUrl.ok THEN [variant EXCEPT !.url = Href(absoluteUrl)]
    ELSE variant

\* group.thumbnailUrl is truthy: present and not the empty string
HasThumbnail(group) ==
    group.thumbnailUrl # <<>> /\ group.thumbnailUrl[1] # <<>>

\* new URL(group.thumbnailUrl, url) throws
ThumbnailThrows(group, base) ==
    HasThumbnail(group) /\ ~ParseWithBase(group.thumbnailUrl[1], base).ok

NormalizeGroup(group, base) ==
    [group EXCEPT
        !.variants = [i \in 1..Len(group.variants) |->
                         NormalizeVariant(group.variants[i], base)],
        !.thumbnailUrl = IF HasThumbnail(group)
                         THEN <<Href(ParseWithBase(group.thumbnailUrl[1], base))>>
                         ELSE <<>>]

processedGroups(groups, base) ==
    [i \in 1..Len(groups) |-> NormalizeGroup(groups[i], base)]

\* the try block after the await: the result, or the Error of the catch block
ServiceOutcome(answer, base) ==
    IF \/ answer.kind # "json"
       \/ \E i \in 1..Len(answer.groups) : ThumbnailThrows(answer.groups[i], base)
    THEN [ok |-> FALSE, groups |-> <<>>, msg |-> AnalysisMsg]
    ELSE [ok |-> TRUE, groups |-> processedGroups(answer.groups, base), msg |-> ""]

----------------------------------------------------------------------------
(* AppComponent: derived state and history *)

NoError == <<>>

\* the distinct elements of a sequence, in first-seen order
DistinctKeepsRepeats(s) == s

RECURSIVE Distinct(_)
Distinct(s) ==
    IF s = <<>> THEN <<>>
    ELSE LET init == Distinct(SubSeq(s, 1, Len(s) - 1))
             last == s[Len(s)]
         IN  IF \E i \in 1..Len(init) : init[i] = last THEN init
             ELSE Append(init, last)

\* the category values of the groups that have a non-empty one
RECURSIVE Categories(_)
Categories(groups) ==
    IF groups = <<>> THEN <<>>
    ELSE LET c == Head(groups).category IN
         (IF c # <<>> /\ c[1] # "" THEN <<c[1]>> ELSE <<>>)
            \o Categories(Tail(groups))

allCategories(groups) == <<"all">> \o Distinct(Categories(groups))

----------------------------------------------------------------------------
(* AppComponent.filteredVideoGroups *)

\* a JavaScript number: NaN or a value
Num(n) == [nan |-> FALSE, v |-> n]
NaN == [nan |-> TRUE, v |-> 0]

Minus(x, y) == IF x.nan \/ y.nan THEN NaN ELSE Num(x.v - y.v)

\* new Date(text).getTime(), counted in days from 1 January 1970; a text
\* that is no date gives NaN
getTime(text) ==
    CASE text = "2023-10-27" -> Num(19657)
      [] text = "2021-01-01" -> Num(18628)
      [] text = "1965-01-01" -> Num(0 - 1826)
      [] OTHER -> NaN

\* new Date(g.uploadDate || 0).getTime()
DateOf(g) ==
    IF g.uploadDate = <<>> \/ g.uploadDate[1] = "" THEN Num(0)
    ELSE getTime(g.uploadDate[1])

\* g.popularity || 0
PopularityOf(g) == IF g.popularity = <<>> THEN 0 ELSE g.popularity[1]

\* the place of a title in the collation of the locale
TitleRank(title) ==
    CASE title = "apple" -> 1
      [] title = "Banana" -> 2
      [] title = "cherry" -> 3
      [] title = "damson" -> 4
      [] title = "elder" -> 5
      [] OTHER -> 6

localeCompare(a, b) ==
    IF TitleRank(a) < TitleRank(b) THEN 0 - 1
    ELSE IF TitleRank(a) > TitleRank(b) THEN 1 ELSE 0

\* the comparator handed to Array.prototype.sort
compare(sort, a, b) ==
    CASE sort = "date" -> Minus(DateOf(b), DateOf(a))
      [] sort = "popularity" -> Num(PopularityOf(b) - PopularityOf(a))
      [] sort = "title" -> Num(localeCompare(a.title, b.title))
      [] OTHER -> Num(0)

\* what sort makes of the comparator's value: NaN counts as +0
SortCompare(sort, a, b) ==
    LET r == compare(sort, a, b) IN IF r.nan THEN 0 ELSE r.v

\* the comparator is a consistent one on the elements of s; sort promises an
\* order only then
Consistent(s, sort) ==
    \A i, j, k \in 1..Len(s) :
        /\ (SortCompare(sort, s[i], s[j]) < 0) = (SortCompare(sort, s[j], s[i]) > 0)
        /\ (SortCompare(sort, s[i], s[j]) <= 0 /\ SortCompare(sort, s[j], s[k]) <= 0)
              => SortCompare(sort, s[i], s[k]) <= 0

Orders(s) ==
    { [i \in 1..Len(s) |-> s[p[i]]] :
        p \in { q \in [1..Len(s) -> 1..Len(s)] :
                  \A i, j \in 1..Len(s) : q[i] = q[j] => i = j } }

\* x put behind the last element that does not have to follow it
RECURSIVE Insert(_, _, _)
Insert(s, x, sort) ==
    IF s = <<>> THEN <<x>>
    ELSE IF SortCompare(sort, s[Len(s)], x) > 0
         THEN Append(Insert(SubSeq(s, 1, Len(s) - 1), x, sort), s[Len(s)])
         ELSE Append(s, x)

\* the stable sort of s
RECURSIVE StableSort(_, _)
StableSort(s, sort) ==
    IF s = <<>> THEN <<>>
    ELSE Insert(StableSort(SubSeq(s, 1, Len(s) - 1), sort), s[Len(s)], sort)

\* the orders groups.sort(comparator) can leave: the stable one when the
\* comparator is consistent, an order the engine chooses when it is not
Sorted(s, sort) ==
    IF Consistent(s, sort) THEN {StableSort(s, sort)} ELSE Orders(s)

hasCategoryOrNone(v, category) == v.category = <<>> \/ v.category = <<category>>

\* v.category === category
hasCategory(v, category) == v.category = <<category>>

Filtered(groups, category) ==
    IF category = "all" THEN groups
    ELSE LET Keep(v) == hasCategory(v, category) IN SelectSeq(groups, Keep)

\* the values the computed signal can have
filteredVideoGroups(groups, category, sort) ==
    Sorted(Filtered(groups, category), sort)

SourceSortedInPlace(groups, category, sorted) ==
    IF category = "all" THEN sorted ELSE groups

\* the signal's own list once the view is computed: sort works on a copy
SourceAfterView(groups, category, sorted) == groups

\* history.filter(h => h !== url)
RECURSIVE Without(_, _)
Without(history, u) ==
    IF history = <<>> THEN <<>>
    ELSE (IF Head(history) # u THEN <<Head(history)>> ELSE <<>>)
            \o Without(Tail(history), u)

\* newHistory.slice(0, 10)
Slice(s, n) == SubSeq(s, 1, IF Len(s) < n THEN Len(s) ELSE n)

limitedHistoryKeepsOld(history, u) == Slice(<<u>> \o history, HistoryCap)

limitedHistoryUncapped(history, u) == <<u>> \o Without(history, u)

\* updateHistory: [url, ...history.filter(h => h !== url)].slice(0, 10)
limitedHistory(history, u) == Slice(<<u>> \o Without(history, u), HistoryCap)

HistoryLostOnWriteFailure(limited, wrote) ==
    IF wrote THEN JList(limited) ELSE urlHistory

\* updateHistory: the try/catch around setItem, then return limitedHistory
HistoryAfterWrite(limited, wrote) == JList(limited)

ClearedOnlyWhenRemoved(removed) ==
    IF removed THEN JList(<<>>) ELSE urlHistory

\* clearHistory: this.urlHistory.set([]) before the try/catch around removeItem
HistoryAfterClear(removed) == JList(<<>>)

\* loadHistory: the value urlHistory holds after ngOnInit
loadHistory(stored, readable) ==
    IF readable /\ stored.kind = "json" THEN stored.val
    ELSE JList(<<>>)

\* the history entries the user of the model clicks on
Clickable == {UrlA, NonString}

\* a string of the history list, offered by the template for loadFromHistory
HistoryEntries == {urlHistory.items[i] : i \in 1..Len(urlHistory.items)}

----------------------------------------------------------------------------
(* The state machine *)

RECURSIVE SumOver(_, _)
SumOver(f, S) ==
    IF S = {} THEN 0
    ELSE LET x == CHOOSE y \in S : TRUE IN f[x] + SumOver(f, S \ {x})

TotalModelCalls == SumOver(modelCalls, DOMAIN modelCalls)

CallsFor(u) == IF u \in DOMAIN modelCalls THEN modelCalls[u] ELSE 0

Put(f, k, v) == [x \in DOMAIN f \cup {k} |-> IF x = k THEN v ELSE f[x]]

Op(name, u) ==
    [op |-> name, url |-> u, overtaken |-> FALSE, sawStore |-> FALSE,
     answer |-> Rejected, wrote |-> FALSE]

Done(name, call) ==
    [op |-> name, url |-> call.url, overtaken |-> call.overtaken,
     sawStore |-> call.sawStore, answer |-> Rejected, wrote |-> FALSE]

\* a handler step no property singles out
Other == Op("other", EmptyInput)

\* the field initialisers of the view controls and of the modal
InitControls ==
    /\ sortBy = "popularity"
    /\ view = [rendered |-> FALSE, groups |-> <<>>, categories |-> <<"all">>,
                category |-> "all", sortBy |-> "popularity"]
    /\ isModalOpen = FALSE
    /\ selectedVideoGroup = <<>>
    /\ copiedUrl = EmptyInput
    /\ writes = <<>>
    /\ timers = <<>>
    /\ clipOp = [op |-> "none", url |-> EmptyInput]
    /\ resumeAt = "try"

Init ==
    /\ InitControls
    /\ lastSubmitted = EmptyInput
    /\ booted = FALSE
    /\ url = EmptyInput
    /\ videoGroups = <<>>
    /\ isLoading = FALSE
    /\ error = NoError
    /\ hasSearched = FALSE
    /\ selectedCategory = "all"
    /\ urlHistory = JList(<<>>)
    /\ storage \in StartupStorage
    /\ cache = <<>>
    /\ inflight = <<>>
    /\ cont = <<>>
    /\ modelCalls = <<>>
    /\ firstStored = <<>>
    /\ lastOp = Other

\* ngOnInit: loadHistory; getItem may throw when storage is inaccessible
NgOnInit ==
    /\ ~booted
    /\ booted' = TRUE
    /\ \E readable \in BOOLEAN : urlHistory' = loadHistory(storage, readable)
    /\ lastOp' = Other
    /\ UNCHANGED <<url, videoGroups, isLoading, error, hasSearched,
                   selectedCategory, storage, cache, inflight, cont,
                   modelCalls, firstStored>>

\* the event loop runs a handler only when no microtask is waiting
Idle == booted /\ cont = <<>>

OnUrlChange(newUrl) ==
    /\ Idle
    /\ url' = newUrl
    /\ error' = NoError
    /\ lastOp' = Other
    /\ UNCHANGED <<booted, videoGroups, isLoading, hasSearched,
                   selectedCategory, urlHistory, storage, cache, inflight,
                   cont, modelCalls, firstStored>>

CacheHasNever(u) == FALSE

\* cache.has(url)
CacheHas(u) == u \in DOMAIN cache

CacheGetMisses(u) == <<>>

\* cache.get(url)!
CacheGet(u) == cache[u]

StartLoadingSkipped == UNCHANGED isLoading

\* this.isLoading.set(true)
StartLoading == isLoading' = TRUE

CatchSwallows(msg) == UNCHANGED error

\* e.message || 'An unknown error occurred.'
MessageOf(msg) == IF msg = "" THEN UnknownMsg ELSE msg

\* catch (e): this.error.set(...)
CatchError(msg) == error' = <<MessageOf(msg)>>

Invocation(u, groups, ok, msg, hit) ==
    [url |-> u, groups |-> groups, ok |-> ok, msg |-> msg, hit |-> hit,
     overtaken |-> FALSE, sawStore |-> FALSE]

ResetCategorySkipped == UNCHANGED selectedCategory

\* this.selectedCategory.set('all')
ResetCategory == selectedCategory' = "all"

\* findVideos up to its await, with findVideosInUrl up to its own await
FindVideosFrom(urlToSearch) ==
    IF ~isValidUrl(urlToSearch)
    THEN /\ error' = <<ValidationMsg>>
         /\ lastOp' = Op("findVideosInvalid", urlToSearch)
         /\ UNCHANGED <<booted, videoGroups, isLoading, hasSearched,
                        selectedCategory, urlHistory, storage, cache,
                        inflight, cont, modelCalls, firstStored>>
    ELSE /\ StartLoading
         /\ error' = NoError
         /\ videoGroups' = <<>>
         /\ hasSearched' = TRUE
         /\ ResetCategory
         /\ lastOp' = Op("findVideos", urlToSearch)
         /\ IF CacheHas(urlToSearch)
            THEN /\ cont' = <<Invocation(urlToSearch, CacheGet(urlToSearch),
                                         TRUE, "", TRUE)>>
                 /\ UNCHANGED <<inflight, modelCalls>>
            ELSE /\ TotalModelCalls < MaxModelCalls
                 /\ modelCalls' = Put(modelCalls, urlToSearch,
                                      CallsFor(urlToSearch) + 1)
                 /\ \E threw \in BOOLEAN :
                       IF threw
                       THEN \* generateContent throws before it returns a
                            \* promise: the catch of findVideosInUrl rejects
                            /\ cont' = <<Invocation(urlToSearch, <<>>, FALSE,
                                                    AnalysisMsg, FALSE)>>
                            /\ UNCHANGED inflight
                       ELSE /\ inflight' = Append(inflight,
                                  Invocation(urlToSearch, <<>>, FALSE, "", FALSE))
                            /\ UNCHANGED cont
         /\ UNCHANGED <<booted, urlHistory, storage, cache, firstStored>>

FindVideos ==
    /\ Idle
    /\ FindVideosFrom(url)
    /\ UNCHANGED url

LoadFromHistory(u) ==
    /\ Idle
    /\ u \in HistoryEntries \cap Clickable
    /\ url' = u
    /\ FindVideosFrom(u)

RemoveAt(s, i) == SubSeq(s, 1, i - 1) \o SubSeq(s, i + 1, Len(s))

\* generateContent settles for the i-th suspended invocation: the rest of
\* findVideosInUrl runs and the continuation of findVideos is queued
CacheAfterAnyAnswer(stored, u, out) == Put(stored, u, out.groups)

\* cache.set(url, processedGroups) at the end of the try block
CacheAfter(stored, u, out) ==
    IF out.ok THEN Put(stored, u, out.groups) ELSE stored

ModelSettles(i, answer) ==
    /\ Idle
    /\ i \in 1..Len(inflight)
    /\ LET call == inflight[i]
           out == ServiceOutcome(answer, call.url)
       IN  /\ cache' = CacheAfter(cache, call.url, out)
           /\ firstStored' = IF out.ok /\ call.url \notin DOMAIN firstStored
                             THEN Put(firstStored, call.url, out.groups)
                             ELSE firstStored
           /\ cont' = <<[call EXCEPT !.ok = out.ok, !.groups = out.groups,
                                     !.msg = out.msg]>>
           /\ lastOp' = [Op(IF out.ok THEN "modelAnswered" ELSE "modelFailed",
                             call.url) EXCEPT !.answer = answer]
    /\ inflight' = RemoveAt(inflight, i)
    /\ UNCHANGED <<booted, url, videoGroups, isLoading, error, hasSearched,
                   selectedCategory, urlHistory, storage, modelCalls>>

MarkOvertaken(calls, stored) ==
    [i \in 1..Len(calls) |->
        [calls[i] EXCEPT !.overtaken = TRUE,
                         !.sawStore = calls[i].sawStore \/ stored]]

StoreResultsOfLatest(call) ==
    videoGroups' = IF call.url = lastSubmitted THEN call.groups ELSE videoGroups

\* this.videoGroups.set(foundGroups)
StoreResults(call) == videoGroups' = call.groups

\* the try and catch blocks of findVideos after the await
TryCatch ==
    /\ LET call == cont[1] IN
       /\ IF call.ok
          THEN /\ StoreResults(call)
               /\ IF urlHistory.kind = "list"
                  THEN LET limited == limitedHistory(urlHistory.items, call.url) IN
                       \E wrote \in BOOLEAN :
                          /\ urlHistory' = HistoryAfterWrite(limited, wrote)
                          /\ storage' = IF wrote THEN Stored(JList(limited))
                                        ELSE storage
                          /\ error' = error
                          /\ lastOp' = [Done("searchDone", call)
                                           EXCEPT !.wrote = wrote]
                  ELSE /\ CatchError(TypeErrorMsg)
                       /\ lastOp' = Done("searchHistoryThrew", call)
                       /\ UNCHANGED <<urlHistory, storage>>
          ELSE /\ CatchError(call.msg)
               /\ lastOp' = Done("searchFailed", call)
               /\ UNCHANGED <<videoGroups, urlHistory, storage>>
       /\ inflight' = MarkOvertaken(inflight, call.ok)
    /\ UNCHANGED <<booted, url, hasSearched, selectedCategory, cache,
                   modelCalls, firstStored>>

FinallySkipped == UNCHANGED isLoading

\* finally: this.isLoading.set(false)
Finally == isLoading' = FALSE

\* the rest of findVideos after the await: try, catch and finally
FindVideosResumes ==
    /\ booted
    /\ cont # <<>>
    /\ TryCatch
    /\ Finally
    /\ cont' = <<>>

ClearHistory ==
    /\ Idle
    /\ \E removed \in BOOLEAN :
          /\ urlHistory' = HistoryAfterClear(removed)
          /\ storage' = IF removed THEN Absent ELSE storage
          /\ lastOp' = [Op("clearHistory", EmptyInput) EXCEPT !.wrote = removed]
    /\ UNCHANGED <<booted, url, videoGroups, isLoading, error, hasSearched,
                   selectedCategory, cache, inflight, cont, modelCalls,
                   firstStored>>

SetCategoryFilter(category) ==
    /\ Idle
    /\ selectedCategory' = category
    /\ lastOp' = Other
    /\ UNCHANGED <<booted, url, videoGroups, isLoading, error, hasSearched,
                   urlHistory, storage, cache, inflight, cont, modelCalls,
                   firstStored>>

\* what the handlers of the search lifecycle leave alone
controlVars == <<viewVars, modalVars, resumeAt, lastSubmitted>>

\* the handlers of the search lifecycle
Next ==
    \/ NgOnInit /\ UNCHANGED controlVars
    \/ \E newUrl \in Inputs : OnUrlChange(newUrl) /\ UNCHANGED controlVars
    \/ FindVideos /\ UNCHANGED controlVars
    \/ \E u \in HistoryEntries : LoadFromHistory(u) /\ UNCHANGED controlVars
    \/ \E i \in 1..MaxModelCalls, answer \in ModelAnswers :
          ModelSettles(i, answer) /\ UNCHANGED controlVars
    \/ FindVideosResumes /\ UNCHANGED controlVars
    \/ ClearHistory /\ UNCHANGED controlVars
    \/ \E i \in 1..Len(allCategories(videoGroups)) :
          SetCategoryFilter(allCategories(videoGroups)[i]) /\ UNCHANGED controlVars

Spec == Init /\ [][Next]_vars

----------------------------------------------------------------------------
(* The search lifecycle with the resumed findVideos taken block by block,
   every model call settling and every continuation run *)

LiveStorage == {Absent, Stored(JObject), Stored(ShortHistory)}

LiveInputs == {UrlA, UrlB, NotAUrl}

LiveAnswers ==
    {Rejected, Unparsable, Answer(<<>>), Answer(AnswerBadVariant),
     Answer(AnswerBadThumb)}

\* the url of the search started last, after findVideos was called with u
Submitted(u) == IF isValidUrl(u) THEN u ELSE lastSubmitted

InitLive == Init /\ storage \in LiveStorage

\* the continuation runs its try block, and its catch block on a throw
ResumeTry ==
    /\ booted
    /\ cont # <<>>
    /\ resumeAt = "try"
    /\ TryCatch
    /\ resumeAt' = "finally"
    /\ UNCHANGED <<isLoading, cont, viewVars, modalVars, lastSubmitted>>

\* the continuation runs its finally block and ends
ResumeFinally ==
    /\ resumeAt = "finally"
    /\ Finally
    /\ cont' = <<>>
    /\ resumeAt' = "try"
    /\ UNCHANGED <<booted, url, videoGroups, error, hasSearched,
                   selectedCategory, urlHistory, storage, cache, inflight,
                   modelCalls, firstStored, lastOp, viewVars, modalVars,
                   lastSubmitted>>

ModelSettlesLive ==
    \E i \in 1..MaxModelCalls, answer \in LiveAnswers :
        ModelSettles(i, answer) /\ UNCHANGED controlVars

NextLive ==
    \/ NgOnInit /\ UNCHANGED controlVars
    \/ \E newUrl \in LiveInputs : OnUrlChange(newUrl) /\ UNCHANGED controlVars
    \/ /\ FindVideos
       /\ lastSubmitted' = Submitted(url)
       /\ UNCHANGED <<viewVars, modalVars, resumeAt>>
    \/ \E u \in HistoryEntries :
          /\ LoadFromHistory(u)
          /\ lastSubmitted' = Submitted(u)
          /\ UNCHANGED <<viewVars, modalVars, resumeAt>>
    \/ ModelSettlesLive
    \/ ResumeTry
    \/ ResumeFinally

\* the external model settles every call, and the event loop runs every
\* continuation it has queued
SpecLive ==
    /\ InitLive
    /\ [][NextLive]_vars
    /\ WF_vars(ModelSettlesLive)
    /\ WF_vars(ResumeTry)
    /\ WF_vars(ResumeFinally)

----------------------------------------------------------------------------
(* The result view: category filter and sort order *)

MaxGroups == 3

Dated(g, date) == [g EXCEPT !.uploadDate = date]

\* groups as a search leaves them: links absolute, optional fields present,
\* absent or empty
ViewGroups ==
    { Dated(Group("Banana", <<>>, <<"Music">>, <<90>>, <<Variant(AbsVideo)>>),
            <<"2023-10-27">>),
      Dated(Group("apple", <<>>, <<"Music">>, <<40>>, <<Variant(AbsVideo)>>),
            <<"2021-01-01">>),
      Group("cherry", <<>>, <<>>, <<>>, <<Variant(AbsVideo)>>),
      Dated(Group("damson", <<>>, <<"Vlog">>, <<40>>, <<Variant(AbsVideo)>>),
            <<"last week">>),
      Dated(Group("elder", <<>>, <<"">>, <<0>>, <<Variant(AbsVideo)>>),
            <<"1965-01-01">>) }

ViewLists == UNION { [1..n -> ViewGroups] : n \in 0..MaxGroups }

SortKeys == {"popularity", "date", "title"}

\* the categories of the groups, and one that an earlier result set offered
CategoryChoices == {"all", "Music", "Vlog", "Gaming"}

\* the state after a first search of UrlA answered gs
AfterFirstSearch(gs) ==
    /\ InitControls
    /\ lastSubmitted = UrlA
    /\ booted = TRUE
    /\ url = UrlA
    /\ videoGroups = gs
    /\ isLoading = FALSE
    /\ error = NoError
    /\ hasSearched = TRUE
    /\ selectedCategory = "all"
    /\ urlHistory = JList(<<UrlA>>)
    /\ storage = Stored(JList(<<UrlA>>))
    /\ cache = Put(<<>>, UrlA, videoGroups)
    /\ inflight = <<>>
    /\ cont = <<>>
    /\ modelCalls = Put(<<>>, UrlA, 1)
    /\ firstStored = cache
    /\ lastOp = Other

InitView == \E gs \in ViewLists : AfterFirstSearch(gs)

SetSortBy(criteria) ==
    /\ Idle
    /\ sortBy' = criteria
    /\ UNCHANGED <<booted, url, videoGroups, isLoading, error, hasSearched,
                   selectedCategory, urlHistory, storage, cache, inflight,
                   cont, modelCalls, firstStored, lastOp, view, modalVars,
                   resumeAt, lastSubmitted>>

\* the template reads allCategories and filteredVideoGroups
Render ==
    /\ Idle
    /\ \E sorted \in filteredVideoGroups(videoGroups, selectedCategory, sortBy) :
          /\ view' = [rendered |-> TRUE, groups |-> sorted,
                      categories |-> allCategories(videoGroups),
                      category |-> selectedCategory, sortBy |-> sortBy]
          /\ videoGroups' = SourceAfterView(videoGroups, selectedCategory, sorted)
    /\ UNCHANGED <<booted, url, isLoading, error, hasSearched,
                   selectedCategory, urlHistory, storage, cache, inflight,
                   cont, modelCalls, firstStored, lastOp, sortBy, modalVars,
                   resumeAt, lastSubmitted>>

NextView ==
    \/ \E category \in CategoryChoices :
          SetCategoryFilter(category) /\ UNCHANGED controlVars
    \/ \E criteria \in SortKeys : SetSortBy(criteria)
    \/ Render

SpecView == InitView /\ [][NextView]_vars

----------------------------------------------------------------------------
(* The download modal and the "copied" indicator *)

MaxPending == 3

AbsVideo2 == <<"https", "://", "cdn.test", "/v-720.mp4">>
AbsVideo3 == <<"https", "://", "cdn.test", "/w.mp4">>

\* two groups, the first with two variants
ModalGroups ==
    << Group("Banana", <<>>, <<"Music">>, <<90>>,
             <<Variant(AbsVideo), Variant(AbsVideo2)>>),
       Group("apple", <<>>, <<>>, <<>>, <<Variant(AbsVideo3)>>) >>

InitModal == AfterFirstSearch(ModalGroups)

ClipOp(name, u) == [op |-> name, url |-> u]

searchVars ==
    <<booted, url, videoGroups, isLoading, error, hasSearched,
      selectedCategory, urlHistory, storage, cache, inflight, cont,
      modelCalls, firstStored, lastOp, resumeAt, lastSubmitted>>

OpenDownloadModal(group) ==
    /\ Idle
    /\ selectedVideoGroup' = <<group>>
    /\ isModalOpen' = TRUE
    /\ clipOp' = ClipOp("openDownloadModal", EmptyInput)
    /\ UNCHANGED <<searchVars, viewVars, copiedUrl, writes, timers>>

CloseModal ==
    /\ Idle
    /\ isModalOpen' = FALSE
    /\ selectedVideoGroup' = <<>>
    /\ copiedUrl' = EmptyInput
    /\ clipOp' = ClipOp("closeModal", EmptyInput)
    /\ UNCHANGED <<searchVars, viewVars, writes, timers>>

\* copyToClipboard up to its return: the write is started; the copy action
\* is offered for the variants of the group the modal shows
CopyToClipboard(u) ==
    /\ Idle
    /\ isModalOpen
    /\ \E i \in 1..Len(selectedVideoGroup[1].variants) :
          selectedVideoGroup[1].variants[i].url = u
    /\ Len(writes) + Len(timers) < MaxPending
    /\ writes' = Append(writes, u)
    /\ clipOp' = ClipOp("copyToClipboard", u)
    /\ UNCHANGED <<searchVars, viewVars, isModalOpen, selectedVideoGroup,
                   copiedUrl, timers>>

\* the write succeeded: the then callback shows the indicator and starts
\* the timer
WriteResolves(i) ==
    /\ Idle
    /\ i \in 1..Len(writes)
    /\ copiedUrl' = writes[i]
    /\ timers' = Append(timers, writes[i])
    /\ writes' = RemoveAt(writes, i)
    /\ clipOp' = ClipOp("copied", writes[i])
    /\ UNCHANGED <<searchVars, viewVars, isModalOpen, selectedVideoGroup>>

\* the write failed: no callback is registered for that
WriteRejects(i) ==
    /\ Idle
    /\ i \in 1..Len(writes)
    /\ writes' = RemoveAt(writes, i)
    /\ clipOp' = ClipOp("writeRejected", writes[i])
    /\ UNCHANGED <<searchVars, viewVars, isModalOpen, selectedVideoGroup,
                   copiedUrl, timers>>

CopiedClearedByAnyTimer(current, timerUrl) == EmptyInput

\* the timer callback: if (this.copiedUrl() === url) this.copiedUrl.set('')
CopiedAfterTimer(current, timerUrl) ==
    IF current = timerUrl THEN EmptyInput ELSE current

\* the timers have the same delay, so the oldest fires first
TimerFires ==
    /\ Idle
    /\ timers # <<>>
    /\ copiedUrl' = CopiedAfterTimer(copiedUrl, Head(timers))
    /\ timers' = Tail(timers)
    /\ clipOp' = ClipOp("timer", Head(timers))
    /\ UNCHANGED <<searchVars, viewVars, isModalOpen, selectedVideoGroup,
                   writes>>

CopyUrls == {AbsVideo, AbsVideo2, AbsVideo3}

NextModal ==
    \/ \E i \in 1..Len(videoGroups) : OpenDownloadModal(videoGroups[i])
    \/ CloseModal
    \/ \E u \in CopyUrls : CopyToClipboard(u)
    \/ \E i \in 1..MaxPending : WriteResolves(i)
    \/ \E i \in 1..MaxPending : WriteRejects(i)
    \/ TimerFires

SpecModal == InitModal /\ [][NextModal]_vars

----------------------------------------------------------------------------
(* Properties *)

FindOps == {"findVideos", "findVideosInvalid"}

\* the same thing said of the state after the step
CallsAfter(u) == IF u \in DOMAIN modelCalls' THEN modelCalls'[u] ELSE 0

\* C1 as stated: for every url the external model is invoked at most once,
\* whatever calls fail or overlap.
C1_AtMostOncePerUrl == \A u \in DOMAIN modelCalls : modelCalls[u] <= 1

\* C1, amended: once the cache holds an entry for a url, that is once a call
\* for it has completed successfully, no step invokes the external model for
\* that url again; only calls that find no entry (after a failure, or while
\* an earlier call is still awaiting the model) invoke it.
C1_NoModelCallOnceCached ==
    [][\A u \in DOMAIN cache : CallsAfter(u) = CallsFor(u)]_vars

\* a url that was analysed twice is then served from the cache
C1_Witness ==
    /\ cont # <<>>
    /\ cont[1].hit
    /\ CallsFor(cont[1].url) = 2

\* C2 as stated: while a model call started by findVideos is in flight,
\* isLoading is true, for every interleaving.
C2_LoadingWhileInFlight == inflight # <<>> => isLoading

\* C2, amended: while a model call started by findVideos is in flight and
\* no findVideos invocation has run to completion since that call started,
\* isLoading is true (the finally block of any invocation clears the flag,
\* also while another call is still in flight).
C2_LoadingUntilACompletion ==
    \A i \in 1..Len(inflight) : ~inflight[i].overtaken => isLoading

\* two overlapping calls in flight, neither overtaken by a completion yet
C2_Witness ==
    /\ Len(inflight) = 2
    /\ ~inflight[1].overtaken
    /\ ~inflight[2].overtaken
    /\ inflight[1].url # inflight[2].url
    /\ isLoading

\* the inputs the specification names as rejected and as accepted
C3_Rejected == {EmptyInput, NotAUrl, FtpUrl}
C3_Accepted == {UrlA, UrlB}

\* C3: findVideos on a url that is empty, malformed or not http/https only
\* sets error to the validation message: loading and result state, the
\* history, its persisted copy and the cache stay as they are and no model
\* call is made; on an http or https url it starts a search.
C3_InvalidUrlOnlySetsError ==
    [][lastOp'.op \in FindOps =>
        /\ lastOp'.url \in C3_Rejected =>
              /\ error' = <<ValidationMsg>>
              /\ UNCHANGED <<isLoading, videoGroups, hasSearched,
                             selectedCategory, urlHistory, storage, cache,
                             modelCalls, inflight, cont>>
        /\ lastOp'.url \in C3_Accepted =>
              /\ isLoading' /\ hasSearched' /\ error' = NoError
              /\ \/ Len(inflight') = Len(inflight) + 1
                 \/ cont' # <<>>
      ]_vars

\* an ftp url is rejected while results of an earlier search are shown
C3_Witness ==
    /\ lastOp.op = "findVideosInvalid"
    /\ lastOp.url = FtpUrl
    /\ error = <<ValidationMsg>>
    /\ videoGroups # <<>>
    /\ selectedCategory # "all"

\* C4 as stated: after a findVideos whose model call failed has completed,
\* videoGroups is empty, error is set, isLoading is false, hasSearched true.
C4_FailureLeavesNoResults ==
    lastOp.op = "searchFailed" =>
        /\ videoGroups = <<>>
        /\ error # NoError
        /\ ~isLoading
        /\ hasSearched

\* C4, amended: after such a findVideos has completed, error is set,
\* isLoading is false and hasSearched is true; videoGroups is empty unless
\* another search stored its results after this one was started.
C4_FailureState ==
    lastOp.op = "searchFailed" =>
        /\ error # NoError
        /\ ~isLoading
        /\ hasSearched
        /\ videoGroups = <<>> \/ lastOp.sawStore

\* a failed search that no other search overlapped
C4_Witness ==
    /\ lastOp.op = "searchFailed"
    /\ ~lastOp.overtaken
    /\ videoGroups = <<>>
    /\ error = <<AnalysisMsg>>

NoDuplicates(s) == \A i, j \in 1..Len(s) : i < j => s[i] # s[j]

Occurs(x, s) == \E i \in 1..Len(s) : s[i] = x

PositionOf(x, s) == CHOOSE i \in 1..Len(s) : s[i] = x

\* C5: urlHistory never holds a url twice, and a successful search puts its
\* url at the front; when the url was in the history already the list keeps
\* its length and the other entries keep their relative order.
C5_HistoryDeduplicated ==
    [][/\ NoDuplicates(urlHistory'.items)
       /\ lastOp'.op = "searchDone" =>
             LET u == lastOp'.url
                 old == urlHistory.items
                 new == urlHistory'.items
             IN  /\ new # <<>>
                 /\ new[1] = u
                 /\ Occurs(u, old) =>
                       /\ Len(new) = Len(old)
                       /\ \A i \in 2..Len(new) :
                             new[i] = IF i <= PositionOf(u, old)
                                      THEN old[i - 1] ELSE old[i]
      ]_vars

\* a, b, a: the history is [a, b]
C5_Witness ==
    /\ storage = Stored(JList(<<UrlA, UrlB>>))
    /\ lastOp.op = "searchDone"
    /\ lastOp.url = UrlA
    /\ urlHistory = JList(<<UrlA, UrlB>>)
    /\ CallsFor(UrlA) = 1
    /\ CallsFor(UrlB) = 1

\* C6: urlHistory and the persisted copy never hold more than 10 entries;
\* a successful search of a url not in a full history puts it in front of
\* the 9 most recent entries and evicts the oldest one.
C6_HistoryCapped ==
    [][/\ Len(urlHistory'.items) <= 10
       /\ Len(storage'.val.items) <= 10
       /\ LET u == lastOp'.url
              old == urlHistory.items
              new == urlHistory'.items
          IN  (lastOp'.op = "searchDone" /\ Len(old) = 10 /\ ~Occurs(u, old)) =>
                 /\ new = <<u>> \o SubSeq(old, 1, 9)
                 /\ ~Occurs(old[10], new)
      ]_vars

\* the eleventh distinct url has been searched: the oldest entry is gone
C6_Witness ==
    /\ lastOp.op = "searchDone"
    /\ lastOp.url = UrlB
    /\ urlHistory.items = <<UrlB, UrlA>> \o SubSeq(OldUrls, 1, HistoryCap - 2)
    /\ storage = Stored(urlHistory)
    /\ ~Occurs(OldUrl(HistoryCap - 1), urlHistory.items)

\* C7 as stated: once a call for a url has completed successfully, every
\* later call returns that same result.
C7_SameResultForever ==
    (cont # <<>> /\ cont[1].hit) => cont[1].groups = firstStored[cont[1].url]

\* C7, amended: a findVideosInUrl call started when the cache holds an entry
\* for the url returns the entry stored at that time, without invoking the
\* external model and without changing the cache; the entry is the result of
\* the latest successful model call for the url, which replaces an earlier
\* one when a call that was already awaiting the model completes later.
C7_CacheHitReturnsStored ==
    [][/\ (lastOp'.op = "findVideos" /\ lastOp'.url \in DOMAIN cache) =>
             /\ cont' # <<>>
             /\ cont'[1].ok
             /\ cont'[1].groups = cache[lastOp'.url]
             /\ UNCHANGED <<cache, modelCalls, inflight>>
       /\ (cont # <<>> /\ cont[1].hit /\ cont' = <<>>) =>
             /\ videoGroups' = cache[cont[1].url]
             /\ Len(inflight') = Len(inflight)
             /\ UNCHANGED <<cache, modelCalls>>
      ]_vars

\* a stored, non-empty result is returned from the cache
C7_Witness ==
    /\ cont # <<>>
    /\ cont[1].hit
    /\ cont[1].groups # <<>>
    /\ cont[1].groups = cache[cont[1].url]

----------------------------------------------------------------------------
(* What the specification says of link resolution *)

ModelOps == {"modelAnswered", "modelFailed"}

Resolves(link, base) == ParseWithBase(link, base).ok

SomeThumbnailUnresolved(groups, base) ==
    \E i \in 1..Len(groups) :
        /\ HasThumbnail(groups[i])
        /\ ~Resolves(groups[i].thumbnailUrl[1], base)

SomeVariantUnresolved(groups, base) ==
    \E i \in 1..Len(groups) : \E j \in 1..Len(groups[i].variants) :
        ~Resolves(groups[i].variants[j].url, base)

\* C8 as stated: when a thumbnailUrl does not resolve against the submitted
\* url, findVideosInUrl still succeeds, the group keeps the unresolved
\* thumbnailUrl and the result is returned and cached.
C8_UnresolvedThumbnailKept ==
    (/\ lastOp.op \in ModelOps
     /\ lastOp.answer.kind = "json"
     /\ SomeThumbnailUnresolved(lastOp.answer.groups, lastOp.url)) =>
        /\ lastOp.op = "modelAnswered"
        /\ cont[1].ok
        /\ CacheHas(lastOp.url)
        /\ cache[lastOp.url] = cont[1].groups
        /\ Len(cont[1].groups) = Len(lastOp.answer.groups)
        /\ \A i \in 1..Len(lastOp.answer.groups) :
              LET group == lastOp.answer.groups[i] IN
              (HasThumbnail(group) /\ ~Resolves(group.thumbnailUrl[1], lastOp.url))
                 => cont[1].groups[i].thumbnailUrl = group.thumbnailUrl

\* C9 as stated: when a variant's url does not resolve, only that variant
\* keeps its url, every other variant is resolved, groups and variants keep
\* their number and order, and findVideosInUrl succeeds and caches the result.
C9_UnresolvedVariantKept ==
    (/\ lastOp.op \in ModelOps
     /\ lastOp.answer.kind = "json"
     /\ SomeVariantUnresolved(lastOp.answer.groups, lastOp.url)) =>
        /\ lastOp.op = "modelAnswered"
        /\ cont[1].ok
        /\ CacheHas(lastOp.url)
        /\ cache[lastOp.url] = cont[1].groups
        /\ Len(cont[1].groups) = Len(lastOp.answer.groups)
        /\ \A i \in 1..Len(lastOp.answer.groups) :
              LET before == lastOp.answer.groups[i].variants
                  after == cont[1].groups[i].variants
              IN  /\ Len(after) = Len(before)
                  /\ cont[1].groups[i].title = lastOp.answer.groups[i].title
                  /\ \A j \in 1..Len(before) :
                        after[j].url =
                            IF Resolves(before[j].url, lastOp.url)
                            THEN Href(ParseWithBase(before[j].url, lastOp.url))
                            ELSE before[j].url

\* C10 as stated: whatever the persisted history key held at startup, a
\* search whose analysis succeeded ends with its results stored, its url at
\* the front of urlHistory and, when no other search completed meanwhile,
\* error null.
C10_SearchWorksAfterAnyStorage ==
    lastOp.op \in {"searchDone", "searchHistoryThrew"} =>
        /\ videoGroups = cache[lastOp.url]
        /\ (~lastOp.overtaken => error = NoError)
        /\ urlHistory.kind = "list"
        /\ urlHistory.items # <<>>
        /\ urlHistory.items[1] = lastOp.url

\* C11 as stated: a failing storage write in updateHistory leaves the
\* enclosing search with urlHistory updated, videoGroups set to the result
\* and error null; a failing remove in clearHistory leaves urlHistory empty;
\* a storage operation that succeeds leaves the persisted copy equal to the
\* list in memory, respectively removed.
C11_WriteFailureLeavesErrorNull ==
    /\ (lastOp.op = "searchDone" /\ ~lastOp.wrote) =>
          /\ urlHistory.kind = "list"
          /\ urlHistory.items # <<>>
          /\ urlHistory.items[1] = lastOp.url
          /\ videoGroups = cache[lastOp.url]
          /\ error = NoError
    /\ (lastOp.op = "searchDone" /\ lastOp.wrote) => storage = Stored(urlHistory)
    /\ lastOp.op = "clearHistory" =>
          /\ urlHistory = JList(<<>>)
          /\ lastOp.wrote => storage = Absent

\* C11, amended: a failing storage write in updateHistory or a failing
\* remove in clearHistory does not interrupt the update in memory:
\* urlHistory takes its new value, the enclosing search sets videoGroups to
\* its result and leaves error as it was (null, unless an overlapping search
\* or a rejected submission set it meanwhile), and the persisted copy stays
\* as it was; when the storage operation succeeds the persisted copy equals
\* the list in memory, respectively is removed.
C11_StorageFailureNotFatal ==
    [][/\ lastOp'.op = "searchDone" =>
             /\ urlHistory'.kind = "list"
             /\ urlHistory'.items # <<>>
             /\ urlHistory'.items[1] = lastOp'.url
             /\ videoGroups' = cont[1].groups
             /\ error' = error
             /\ storage' = IF lastOp'.wrote THEN Stored(urlHistory') ELSE storage
       /\ lastOp'.op = "clearHistory" =>
             /\ urlHistory' = JList(<<>>)
             /\ storage' = IF lastOp'.wrote THEN Absent ELSE storage
      ]_vars

\* a search completed although its history could not be written
C11_Witness ==
    /\ lastOp.op = "searchDone"
    /\ ~lastOp.wrote
    /\ urlHistory.items[1] = lastOp.url
    /\ storage = Absent
    /\ videoGroups # <<>>
    /\ error = NoError

----------------------------------------------------------------------------
(* Properties of the result view *)

\* the positions of videoGroups the filter of the rendered view lets through
Passing ==
    { i \in 1..Len(videoGroups) :
        view.category = "all" \/ videoGroups[i].category = <<view.category>> }

\* the ways to read out as an arrangement of the elements of src at idx
Arrangements(out, src, idx) ==
    { f \in [1..Len(out) -> idx] :
        /\ \A i, j \in 1..Len(out) : f[i] = f[j] => i = j
        /\ \A i \in idx : \E j \in 1..Len(out) : f[j] = i
        /\ \A i \in 1..Len(out) : out[i] = src[f[i]] }

\* C12: whatever the result set and the selected category, the view holds
\* every group of videoGroups under "all" and under another category exactly
\* the groups whose category is that one, a group without a category never
\* among them; so it is never longer than the list "all" shows.
C12_FilterByCategory ==
    view.rendered =>
        /\ Arrangements(view.groups, videoGroups, Passing) # {}
        /\ view.category = "all" => Len(view.groups) = Len(videoGroups)
        /\ view.category # "all" =>
              /\ \A i \in 1..Len(view.groups) :
                    view.groups[i].category = <<view.category>>
              /\ Len(view.groups) <= Len(videoGroups)

C12_Witness ==
    /\ view.rendered
    /\ view.category = "Music"
    /\ Len(view.groups) = 2
    /\ Len(videoGroups) = 3
    /\ \E i \in 1..Len(videoGroups) : videoGroups[i].category = <<>>

\* C13: computing the view leaves videoGroups as it was, and under
\* sortBy = popularity the view is the filtered groups by falling popularity,
\* a missing popularity counting as 0 and groups of equal popularity staying
\* in the order videoGroups has them.
C13_PopularityOrder ==
    [][ view' # view =>
          /\ videoGroups' = videoGroups
          /\ view'.sortBy = "popularity" =>
                \E f \in Arrangements(view.groups, videoGroups, Passing)' :
                   \A i, j \in 1..Len(view'.groups) :
                      i < j =>
                         \/ PopularityOf(videoGroups[f[i]]) > PopularityOf(videoGroups[f[j]])
                         \/ /\ PopularityOf(videoGroups[f[i]]) = PopularityOf(videoGroups[f[j]])
                            /\ f[i] < f[j] ]_vars

C13_Witness ==
    /\ view.rendered
    /\ view.sortBy = "popularity"
    /\ view.category = "all"
    /\ view.groups # videoGroups
    /\ \E i \in 1..Len(videoGroups) : videoGroups[i].popularity = <<>>
    /\ \E i, j \in 1..Len(view.groups) :
          /\ view.groups[i] # view.groups[j]
          /\ view.groups[i].popularity # <<>>
          /\ view.groups[i].popularity = view.groups[j].popularity

\* uploadDate is there and new Date reads it as a date
HasValidDate(g) ==
    /\ g.uploadDate # <<>>
    /\ g.uploadDate[1] # ""
    /\ ~getTime(g.uploadDate[1]).nan

\* C17: under sortBy = date the view has the groups with a valid uploadDate
\* first, the most recent first, and after all of them the groups whose
\* uploadDate is missing or is no date.
C17_UndatedGroupsLast ==
    (view.rendered /\ view.sortBy = "date") =>
        \A i, j \in 1..Len(view.groups) :
           (i < j /\ HasValidDate(view.groups[j])) =>
               /\ HasValidDate(view.groups[i])
               /\ DateOf(view.groups[i]).v >= DateOf(view.groups[j]).v

\* the first position of videoGroups that has category c
FirstSeen(c) ==
    CHOOSE i \in 1..Len(videoGroups) :
        /\ videoGroups[i].category = <<c>>
        /\ \A k \in 1..(i - 1) : videoGroups[k].category # <<c>>

\* C18: whatever category is selected and whatever the sort key, the list of
\* categories the template shows is "all" followed by the non-empty category
\* values of videoGroups, each once, in the order videoGroups first has them.
C18_CategoryList ==
    view.rendered =>
        LET rest == Tail(view.categories) IN
        /\ Head(view.categories) = "all"
        /\ \A k \in 1..Len(videoGroups) :
              (videoGroups[k].category \notin {<<>>, <<"">>}) =>
                 \E i \in 1..Len(rest) : videoGroups[k].category = <<rest[i]>>
        /\ \A i \in 1..Len(rest) :
              /\ rest[i] # ""
              /\ \E k \in 1..Len(videoGroups) : videoGroups[k].category = <<rest[i]>>
        /\ \A i, j \in 1..Len(rest) :
              i < j => (rest[i] # rest[j] /\ FirstSeen(rest[i]) < FirstSeen(rest[j]))

C18_Witness ==
    /\ view.rendered
    /\ view.category = "Vlog"
    /\ view.sortBy = "date"
    /\ view.categories = <<"all", "Music", "Vlog">>
    /\ Len(videoGroups) = 3
    /\ videoGroups[1].category = videoGroups[3].category

----------------------------------------------------------------------------
(* Properties of the "copied" indicator *)

\* C14: however copies, write completions and timers interleave, the timer
\* started for one url leaves copiedUrl alone while it holds another url,
\* and copiedUrl goes from a url to empty only through the timer of the url
\* it holds or through closeModal.
C14_IndicatorClearedByOwnTimer ==
    [][ /\ (clipOp'.op = "timer" /\ clipOp'.url # copiedUrl) =>
              copiedUrl' = copiedUrl
        /\ (copiedUrl # EmptyInput /\ copiedUrl' = EmptyInput) =>
              \/ clipOp'.op = "closeModal"
              \/ clipOp'.op = "timer" /\ clipOp'.url = copiedUrl ]_vars

\* the timer of the url copied first has fired while the indicator shows
\* the url copied after it, whose own timer is still to come
C14_Witness ==
    /\ clipOp.op = "timer"
    /\ copiedUrl # EmptyInput
    /\ clipOp.url # copiedUrl
    /\ timers # <<>>
    /\ Head(timers) = copiedUrl

----------------------------------------------------------------------------
(* Properties of the search lifecycle taken block by block *)

\* the continuation at the head of cont has stored its results or its error
OutcomeStored ==
    /\ cont # <<>>
    /\ lastOp.url = cont[1].url
    /\ CASE lastOp.op = "searchDone" -> videoGroups = cont[1].groups
         [] lastOp.op = "searchFailed" -> error = <<MessageOf(cont[1].msg)>>
         [] lastOp.op = "searchHistoryThrew" -> error = <<TypeErrorMsg>>
         [] OTHER -> FALSE

\* C15: if every model call settles, a search that has set isLoading always
\* comes to a state where isLoading is false, whether the call succeeded,
\* failed or threw before it was sent; and isLoading is cleared by the last
\* step of an invocation only: the results or the error are stored by then,
\* the step changes nothing else and the invocation ends with it.
C15_LoadingClearedLast ==
    /\ isLoading ~> ~isLoading
    /\ [][ ((isLoading /\ ~isLoading') \/ (resumeAt = "finally" /\ resumeAt' = "try")) =>
              /\ resumeAt = "finally"
              /\ OutcomeStored
              /\ ~isLoading'
              /\ cont' = <<>>
              /\ UNCHANGED <<url, videoGroups, error, hasSearched,
                             selectedCategory, urlHistory, storage, cache>> ]_vars

\* a search whose call threw before it was sent has ended, not loading
C15_Witness ==
    /\ ~isLoading
    /\ cont = <<>>
    /\ inflight = <<>>
    /\ resumeAt = "try"
    /\ lastOp.op = "searchFailed"
    /\ error = <<AnalysisMsg>>
    /\ cache = <<>>
    /\ TotalModelCalls = 1

\* C16: every successful completion stores its own result in videoGroups,
\* whether or not a newer search has been started since; so what videoGroups
\* holds once all calls have completed is the result of the search that
\* completed last, which can be another one than the search started last.
C16_LastCompletionWins ==
    [][ (cont # <<>> /\ cont[1].ok /\ resumeAt = "try" /\ resumeAt' = "finally") =>
            videoGroups' = cont[1].groups ]_vars

\* the search of UrlA was started before the search of UrlB and completed
\* after it: videoGroups holds the result for UrlA
C16_Witness ==
    /\ lastOp.op = "searchDone"
    /\ lastOp.url = UrlA
    /\ lastSubmitted = UrlB
    /\ inflight = <<>>
    /\ cont = <<>>
    /\ DOMAIN cache = {UrlA, UrlB}
    /\ cache[UrlA] # cache[UrlB]
    /\ videoGroups = cache[UrlA]
    /\ ~isLoading

----------------------------------------------------------------------------
(* Properties of the search lifecycle, continued *)

\* C19: a search whose model call fails changes neither urlHistory nor the
\* persisted history nor the cache; an entry is written to the cache only
\* with the result of an analysis that succeeded, a url is pushed onto the
\* history only by a search that succeeded, and no entry ever leaves the
\* cache.
C19_FailureLeavesHistoryAndCache ==
    [][ /\ lastOp'.op \in {"modelFailed", "searchFailed"} =>
              UNCHANGED <<urlHistory, storage, cache>>
        /\ DOMAIN cache \subseteq DOMAIN cache'
        /\ cache' # cache =>
              /\ lastOp'.op = "modelAnswered"
              /\ ServiceOutcome(lastOp'.answer, lastOp'.url).ok
              /\ cache' = Put(cache, lastOp'.url,
                              ServiceOutcome(lastOp'.answer, lastOp'.url).groups)
        /\ (booted /\ (urlHistory' # urlHistory \/ storage' # storage)) =>
              \/ lastOp'.op = "clearHistory"
              \/ /\ lastOp'.op = "searchDone"
                 /\ lastOp'.url \in DOMAIN cache
                 /\ Head(urlHistory'.items) = lastOp'.url ]_vars

\* a search of UrlB failed after a search of UrlA had succeeded
C19_Witness ==
    /\ lastOp.op = "searchFailed"
    /\ lastOp.url = UrlB
    /\ DOMAIN cache = {UrlA}
    /\ urlHistory = JList(<<UrlA>>)
    /\ storage = Stored(urlHistory)
    /\ CallsFor(UrlB) = 1

\* category is one of the categories the template offers for groups
Offered(groups, category) ==
    \/ category = "all"
    \/ /\ category # ""
       /\ \E i \in 1..Len(groups) : groups[i].category = <<category>>

InCategories == Offered(videoGroups, selectedCategory)

\* C20: setCategoryFilter being called with members of allCategories only,
\* selectedCategory is a member of allCategories in every reachable state.
C20_FilterNamesExistingCategory == InCategories

\* C20, amended: every search start sets selectedCategory to "all", and the
\* only step after which selectedCategory is no longer a member of
\* allCategories is a successful completion of a search during whose call
\* another search stored the results the category was chosen from.
C20_FilterStaleOnlyAfterOverlap ==
    [][ /\ lastOp'.op = "findVideos" => selectedCategory' = "all"
        /\ \/ UNCHANGED <<videoGroups, selectedCategory>>
           \/ Offered(videoGroups', selectedCategory')
           \/ ~InCategories
           \/ /\ lastOp'.op \in {"searchDone", "searchHistoryThrew"}
              /\ lastOp'.sawStore
              /\ selectedCategory # "all" ]_vars

C20_Witness ==
    /\ lastOp.op = "searchDone"
    /\ lastOp.sawStore
    /\ selectedCategory = "Music"
    /\ ~InCategories
====
